---- MODULE Spec2Model ----
(***************************************************************************)
(* Model of the job-board aggregator: the platform adapters and the fetch  *)
(* orchestrator of scripts/scraper.py, its data quality filter and         *)
(* save_results, and the merge engine of scripts/merge_data.py.            *)
(***************************************************************************)
EXTENDS Integers, Sequences, FiniteSets, TLC

VARIABLES
    now,          \* the UTC clock, in hours
    phase,        \* "scrape": a scrape may be saved; "merge": a batch awaits merge_job_data; "done"
    all_jobs,     \* the all_jobs argument of the last save_results call
    output,       \* scripts/output/all_jobs.json.gz ; <<>> before the first save
    outMeta,      \* scripts/output/metadata.json
    existing,     \* existing_jobs as loaded by the last merge_job_data call
    data,         \* data/all_jobs.json.gz, the persisted corpus ; <<>> when absent
    dataMeta,     \* data/metadata.json
    lastScraped,  \* history: url -> hour of the last save_results whose batch held it, -1 if none
    mergedAt,     \* history: hour of the last merge_job_data call, -1 if none
    runs,         \* number of merge_job_data calls so far
    ticks,        \* number of clock advances so far
    \* fetch_all_jobs
    platform,          \* the platform whose fetcher is run
    companies,         \* the identifier set
    vendor,            \* identifier -> how the vendor answers its requests
    future,            \* identifier -> "queued", "running", "done" (result ready), "collected"
    call,              \* identifier -> the locals of its adapter call
    result,            \* identifier -> the record list its call returned
    calls,             \* history: identifier -> number of adapter calls started
    jobs_found,        \* all_jobs of fetch_all_jobs
    active_companies,  \* active_companies of fetch_all_jobs
    failed             \* failed of fetch_all_jobs

pipeVars == <<now, phase, all_jobs, output, outMeta, existing, data, dataMeta,
              lastScraped, mergedAt, runs, ticks>>

fetchVars == <<platform, companies, vendor, future, call, result, calls,
               jobs_found, active_companies, failed>>

vars == <<pipeVars, fetchVars>>

----------------------------------------------------------------------------
(* Python values *)

\* None, also the result of dict.get on a missing key (atomic string fields)
None == "None"

\* a title is a sequence of characters; this one stands for a None title
NoneTitle == <<None>>

\* truth value of an optional atomic string: None and "" are falsy
Truthy(x) == x # None /\ x # ""

\* Python's `a or b` on optional strings
PyOr(a, b) == IF Truthy(a) THEN a ELSE b

Whitespace == {" ", "\t", "\n"}

UpperChars == <<"A","B","C","D","E","F","G","H","I","J","K","L","M",
                "N","O","P","Q","R","S","T","U","V","W","X","Y","Z">>
LowerChars == <<"a","b","c","d","e","f","g","h","i","j","k","l","m",
                "n","o","p","q","r","s","t","u","v","w","x","y","z">>

LowerChar(c) ==
    IF \E i \in DOMAIN UpperChars : UpperChars[i] = c
    THEN LowerChars[CHOOSE i \in DOMAIN UpperChars : UpperChars[i] = c]
    ELSE c

\* str.lower()
StrLower(s) == [i \in DOMAIN s |-> LowerChar(s[i])]

RECURSIVE LStrip(_)
LStrip(s) == IF s # <<>> /\ Head(s) \in Whitespace THEN LStrip(Tail(s)) ELSE s

RECURSIVE RStrip(_)
RStrip(s) ==
    IF s # <<>> /\ s[Len(s)] \in Whitespace THEN RStrip(SubSeq(s, 1, Len(s) - 1)) ELSE s

\* str.strip()
StrStrip(s) == RStrip(LStrip(s))

----------------------------------------------------------------------------
(* Canonical job records *)

Job(title, url, absolute_url, company, company_slug, is_recruiter, scraped_at) ==
    [title |-> title, url |-> url, absolute_url |-> absolute_url,
     company |-> company, company_slug |-> company_slug,
     is_recruiter |-> is_recruiter, scraped_at |-> scraped_at]

\* scraped_at values: kind is "missing" (no such key / None), "empty" (""),
\* "bad" (a string fromisoformat rejects, as "not-a-date"), "naive" (ISO-8601
\* without zone), "Z" (ISO-8601 with a Z suffix), "offset" (ISO-8601 with a
\* numeric UTC offset); t is the instant it denotes, in hours.
Stamp(kind, t) == [kind |-> kind, t |-> t]
NoStamp == Stamp("missing", 0)

----------------------------------------------------------------------------
(* clean_job_data *)

StrNotSpecified == <<"n","o","t"," ","s","p","e","c","i","f","i","e","d">>
StrNA == <<"n","/","a">>
StrUnknown == <<"u","n","k","n","o","w","n">>

InvalidTitles == {StrNotSpecified, StrNA, StrUnknown, <<>>}

\* (job.get('title') or '').strip().lower()
CleanTitle(job) ==
    StrLower(StrStrip(IF job.title = NoneTitle THEN <<>> ELSE job.title))

\* job.get('url') or job.get('absolute_url')
CleanUrl(job) == PyOr(job.url, job.absolute_url)

\* job.get('company') or job.get('company_slug')
CleanCompany(job) == PyOr(job.company, job.company_slug)

\* the record reaches cleaned.append(job)
KeepsJob(job) ==
    /\ ~(CleanTitle(job) = <<>> \/ CleanTitle(job) \in InvalidTitles)
    /\ Truthy(CleanUrl(job))
    /\ Truthy(CleanCompany(job))

RECURSIVE clean_job_data(_)
clean_job_data(jobs) ==
    IF jobs = <<>> THEN <<>>
    ELSE IF KeepsJob(Head(jobs))
         THEN <<Head(jobs)>> \o clean_job_data(Tail(jobs))
         ELSE clean_job_data(Tail(jobs))

RECURSIVE CountRecruiter(_)
\* sum(1 for job in all_jobs if job.get("is_recruiter"))
CountRecruiter(jobs) ==
    IF jobs = <<>> THEN 0
    ELSE (IF Head(jobs).is_recruiter THEN 1 ELSE 0) + CountRecruiter(Tail(jobs))

----------------------------------------------------------------------------
(* merge_job_data *)

HoursPerDay == 24
StaleDays == 30

\* job.get("absolute_url") or job.get("url")
MergeKey(job) == PyOr(job.absolute_url, job.url)

\* scraped.replace("Z", "")
StripZ(s) == IF s.kind = "Z" THEN Stamp("naive", s.t) ELSE s

\* datetime.fromisoformat: raises on "bad"; a string without offset gives a
\* naive datetime, one with an offset an aware datetime
ParsesIso(s) == s.kind \in {"naive", "offset"}
IsAware(s) == s.kind = "offset"

\* (now - scraped_date).days, now being aware: raises TypeError on a naive
\* scraped_date; timedelta.days is the floor of the difference in days
SubtractRaises(s) == ~IsAware(s)
AgeDays(t, s) == (t - s.t) \div HoursPerDay

\* mutant: a record whose scraped_at cannot be aged is dropped
KeepsExistingFailClosed(job, t) ==
    /\ job.scraped_at.kind = "offset"
    /\ AgeDays(t, job.scraped_at) <= StaleDays

\* lines 35-51: whether the existing record is put into merged
KeepsExisting(job, t) ==
    LET scraped == job.scraped_at IN
    IF scraped.kind \in {"missing", "empty"} THEN TRUE            \* no scraped_at: keep
    ELSE LET stripped == StripZ(scraped) IN
         IF ~ParsesIso(stripped) \/ SubtractRaises(stripped) THEN TRUE   \* except Exception
         ELSE AgeDays(t, stripped) <= StaleDays

\* merged is a dict: a sequence of <<key, job>> in insertion order
DictKeys(m) == {m[i][1] : i \in DOMAIN m}
DictValues(m) == [i \in DOMAIN m |-> m[i][2]]

\* mutant: the first write for a key wins
DictPutKeepFirst(m, k, v) ==
    IF k \in DictKeys(m) THEN m ELSE Append(m, <<k, v>>)

\* merged[url] = job
DictPut(m, k, v) ==
    IF k \in DictKeys(m)
    THEN [i \in DOMAIN m |-> IF m[i][1] = k THEN <<k, v>> ELSE m[i]]
    ELSE Append(m, <<k, v>>)

RECURSIVE AddExisting(_, _, _)
\* lines 29-51
AddExisting(m, jobs, t) ==
    IF jobs = <<>> THEN m
    ELSE LET job == Head(jobs)
             url == MergeKey(job)
         IN  IF ~Truthy(url) THEN AddExisting(m, Tail(jobs), t)
             ELSE IF KeepsExisting(job, t)
                  THEN AddExisting(DictPut(m, url, job), Tail(jobs), t)
                  ELSE AddExisting(m, Tail(jobs), t)

RECURSIVE AddNew(_, _)
\* lines 57-60
AddNew(m, jobs) ==
    IF jobs = <<>> THEN m
    ELSE LET job == Head(jobs)
             url == MergeKey(job)
         IN  IF Truthy(url) THEN AddNew(DictPut(m, url, job), Tail(jobs))
             ELSE AddNew(m, Tail(jobs))

\* the merged dict built by lines 25-60
Merged(existing_jobs, new_jobs, t) == AddNew(AddExisting(<<>>, existing_jobs, t), new_jobs)

\* final_jobs = list(merged.values())
FinalJobs(existing_jobs, new_jobs, t) == DictValues(Merged(existing_jobs, new_jobs, t))

----------------------------------------------------------------------------
(* Bounds and input universes of the pipeline *)

MaxPrev == 2      \* longest persisted corpus the first run may find
MaxBatch == 2     \* longest scrape handed to save_results
MaxRuns == 2      \* merge_job_data calls in a sequence of runs
MaxTicks == 2     \* clock advances in a sequence of runs

Urls == {"u1", "u2"}

TitleA == <<"A">>
TitleB == <<"B">>
TitleC == <<"C">>

Now0 == 40 * HoursPerDay

\* ages of the sampled timestamps, in hours: 5 d, 29 d, 30 d 23 h, 31 d, 40 d
AgeSamples == {5 * HoursPerDay, 29 * HoursPerDay, 30 * HoursPerDay + 23,
               31 * HoursPerDay, 40 * HoursPerDay}

StampSamples ==
    {NoStamp, Stamp("empty", 0), Stamp("bad", 0), Stamp("naive", Now0 - 31 * HoursPerDay)}
    \cup {Stamp(k, Now0 - a) : k \in {"Z", "offset"}, a \in AgeSamples}

\* records a persisted corpus may hold
ExistingUniverse ==
    {Job(TitleA, u, None, "acme", "acme", FALSE, s) : u \in Urls, s \in StampSamples}
    \cup {Job(TitleA, u, a, "acme", "acme", FALSE, NoStamp) : u \in Urls, a \in Urls}
    \cup {Job(TitleA, u, None, "acme-staffing", "acme-staffing", TRUE, NoStamp) : u \in Urls}

\* records a scrape may hold
BatchUniverse ==
    {Job(TitleB, "u1", None, "acme", "acme", FALSE, NoStamp),
     Job(TitleB, "u2", None, "acme", "acme", FALSE, NoStamp),
     Job(TitleC, "u1", None, "acme", "acme", FALSE, NoStamp),
     Job(TitleB, "u1", "u2", "acme", "acme", FALSE, NoStamp),
     Job(TitleB, "u2", None, "acme-staffing", "acme-staffing", TRUE, NoStamp),
     Job(TitleB, None, None, "acme", "acme", FALSE, NoStamp)}

Range(f) == {f[i] : i \in DOMAIN f}

SeqsUpTo(S, n) == UNION {[1..k -> S] : k \in 0..n}

KeysOf(jobs) == {MergeKey(jobs[i]) : i \in DOMAIN jobs}

KeyUnique(jobs) ==
    /\ \A i \in DOMAIN jobs : Truthy(MergeKey(jobs[i]))
    /\ \A i, j \in DOMAIN jobs : MergeKey(jobs[i]) = MergeKey(jobs[j]) => i = j

\* a persisted corpus is the value list of a dict keyed by MergeKey
Corpora == {c \in SeqsUpTo(ExistingUniverse, MaxPrev) : KeyUnique(c)}

Batches == SeqsUpTo(BatchUniverse, MaxBatch)

Meta(stamp, total, recruiter) ==
    [last_updated |-> stamp, total_jobs |-> total, recruiter_jobs |-> recruiter]

\* no fetch_all_jobs run is part of the behaviour
NoFetch ==
    /\ platform = "none"
    /\ companies = {}
    /\ vendor = <<>>
    /\ future = <<>>
    /\ call = <<>>
    /\ result = <<>>
    /\ calls = <<>>
    /\ jobs_found = <<>>
    /\ active_companies = <<>>
    /\ failed = 0

----------------------------------------------------------------------------
(* The pipeline: save_results, then merge_job_data *)

PipeStart(corpus) ==
    /\ now = Now0
    /\ phase = "scrape"
    /\ all_jobs = <<>>
    /\ output = <<>>
    /\ outMeta = Meta(NoStamp, 0, 0)
    /\ existing = <<>>
    /\ data = corpus
    /\ dataMeta = Meta(NoStamp, Len(corpus), CountRecruiter(corpus))
    /\ lastScraped = [u \in Urls |-> -1]
    /\ mergedAt = -1
    /\ runs = 0
    /\ ticks = 0

InitPipe(corpus) == PipeStart(corpus) /\ NoFetch

\* save_results(all_companies, active_companies, all_jobs) with all_jobs = raw.
\* The company lists and company counts it also writes copy its other two
\* arguments; nothing downstream reads them, and they are left out.
SaveResults(raw) ==
    /\ phase = "scrape"
    /\ runs < MaxRuns
    /\ all_jobs' = raw
    /\ output' = clean_job_data(raw)
    /\ outMeta' = Meta(Stamp("Z", now), Len(output'), CountRecruiter(output'))
    /\ lastScraped' = [u \in Urls |-> IF u \in KeysOf(output') THEN now ELSE lastScraped[u]]
    /\ phase' = "merge"
    /\ UNCHANGED <<now, existing, data, dataMeta, mergedAt, runs, ticks>>
    /\ UNCHANGED fetchVars

\* merge_job_data(); next is the phase that follows
MergeJobData(next) ==
    /\ phase = "merge"
    /\ existing' = data
    /\ data' = FinalJobs(data, output, now)
    /\ dataMeta' = [outMeta EXCEPT !.total_jobs = Len(data')]
    /\ mergedAt' = now
    /\ runs' = runs + 1
    /\ phase' = next
    /\ UNCHANGED <<now, all_jobs, output, outMeta, lastScraped, ticks>>
    /\ UNCHANGED fetchVars

TickSteps == {HoursPerDay, 31 * HoursPerDay}

\* time passes between two runs
Tick(d) ==
    /\ phase = "scrape"
    /\ ticks < MaxTicks
    /\ now' = now + d
    /\ ticks' = ticks + 1
    /\ UNCHANGED <<phase, all_jobs, output, outMeta, existing, data, dataMeta,
                   lastScraped, mergedAt, runs>>
    /\ UNCHANGED fetchVars

\* one run over any persisted corpus
Init == \E corpus \in Corpora : InitPipe(corpus)

Next ==
    \/ \E raw \in Batches : SaveResults(raw)
    \/ MergeJobData("done")

Spec == Init /\ [][Next]_vars

\* a sequence of runs from an empty corpus
InitRuns == InitPipe(<<>>)

NextRuns ==
    \/ \E raw \in Batches : SaveResults(raw)
    \/ MergeJobData("scrape")
    \/ \E d \in TickSteps : Tick(d)

SpecRuns == InitRuns /\ [][NextRuns]_vars

\* the data quality filter alone, over scrapes with unusable fields
MaxCleanBatch == 2

StrDev == <<"D","e","v">>

CleanTitles ==
    {NoneTitle, <<>>, StrDev,
     <<"N","o","t"," ","S","p","e","c","i","f","i","e","d">>,
     <<" ","N","/","A"," ">>}

CleanUniverse ==
    {Job(t, u, a, c, cs, FALSE, NoStamp) :
        t \in CleanTitles, u \in {None, "u1"}, a \in {None, "u2"},
        c \in {"", "acme"}, cs \in {"", "acme"}}

CleanBatches == SeqsUpTo(CleanUniverse, MaxCleanBatch)

InitClean == InitPipe(<<>>)

NextClean == \E raw \in CleanBatches : SaveResults(raw)

SpecClean == InitClean /\ [][NextClean]_vars

----------------------------------------------------------------------------
(* Platform adapters *)

Platforms == {"Greenhouse", "Ashby", "BambooHR", "Lever", "Workday"}

\* mutant: the pool is given a worker per identifier
WorkerPerCompany == Cardinality(companies)

\* ThreadPoolExecutor(max_workers=30)
max_workers == 30
limit == 20

\* an identifier is a sequence of characters
HasChar(s, c) == \E i \in DOMAIN s : s[i] = c
FirstIndex(s, c) == CHOOSE i \in DOMAIN s : s[i] = c /\ \A j \in 1..(i - 1) : s[j] # c

RECURSIVE Split(_, _)
\* str.split(sep)
Split(s, sep) ==
    IF ~HasChar(s, sep) THEN <<s>>
    ELSE LET i == FirstIndex(s, sep)
         IN  <<SubSeq(s, 1, i - 1)>> \o Split(SubSeq(s, i + 1, Len(s)), sep)

\* a vendor holds total postings, numbered 1..total, and answers its failAt-th
\* request for the identifier (0: none) with failKind: "status" is a non-200
\* status, "error" a transport error, a timeout or a malformed payload, each
\* of which raises inside the adapter's try block
Vendor(total, failAt, failKind) == [total |-> total, failAt |-> failAt, failKind |-> failKind]

Min(a, b) == IF a <= b THEN a ELSE b

\* the response to the n-th request: a paginated endpoint serves the postings
\* offset+1 .. offset+limit, any other endpoint serves them all
VendorResponse(v, n, offset, paged) ==
    IF v.failAt = n THEN [kind |-> v.failKind, jobs |-> <<>>, total |-> 0]
    ELSE LET first == IF paged THEN offset + 1 ELSE 1
             last == IF paged THEN Min(offset + limit, v.total) ELSE v.total
         IN  [kind |-> "ok",
              jobs |-> [i \in 1..(IF last >= first THEN last - first + 1 ELSE 0)
                            |-> first + i - 1],
              total |-> v.total]

\* the normalized record of one posting
Normalize(company, slug, id) == [company |-> company, company_slug |-> slug, id |-> id]

\* the locals of an adapter call
NewCall == [offset |-> 0, normalized |-> <<>>, requests |-> <<>>, sawFailure |-> FALSE]

Returns(c, value) == [call |-> c, returned |-> TRUE, value |-> value]
Continues(c) == [call |-> c, returned |-> FALSE, value |-> <<>>]

\* fetch_company_jobs_greenhouse / _ashby / _bamboohr / _lever: one request
SingleShotStep(slug, c, resp) ==
    LET c1 == [c EXCEPT !.requests = Append(@, 0),
                        !.sawFailure = @ \/ resp.kind # "ok"]
    IN  IF resp.kind = "error" THEN Returns(c1, <<>>)             \* except: return slug, []
        ELSE IF resp.kind = "status" THEN Returns(c1, <<>>)       \* status_code != 200
        ELSE IF resp.jobs = <<>> THEN Returns(c1, <<>>)           \* not jobs
        ELSE LET normalized == [i \in DOMAIN resp.jobs |-> Normalize(slug, slug, resp.jobs[i])]
             IN  Returns([c1 EXCEPT !.normalized = normalized], normalized)

\* mutant: the loop goes on while offset <= total
WorkdayDoneLate(offset, total) == offset > total

\* `if offset >= total: break`
WorkdayDone(offset, total) == offset >= total

\* fetch_company_jobs_workday: one pass through the `while True` body
WorkdayStep(slug, c, resp) ==
    LET c1 == [c EXCEPT !.requests = Append(@, c.offset),
                        !.sawFailure = @ \/ resp.kind # "ok"]
        company == Split(slug, "|")[1]
    IN  IF resp.kind = "error" THEN Returns(c1, <<>>)             \* except: return slug, []
        ELSE IF resp.kind = "status" THEN Returns(c1, c1.normalized)   \* break; return slug, normalized
        ELSE LET c2 == [c1 EXCEPT
                          !.normalized = @ \o [i \in DOMAIN resp.jobs |->
                                                  Normalize(company, slug, resp.jobs[i])],
                          !.offset = @ + limit]
             IN  IF WorkdayDone(c2.offset, resp.total)
                 THEN Returns(c2, c2.normalized)
                 ELSE Continues(c2)

Paginates(p) == p = "Workday"

\* a composite identifier with other than three parts returns without a request
RejectsSlug(p, slug) == p = "Workday" /\ Len(Split(slug, "|")) # 3

AdapterStep(p, slug, c, resp) ==
    IF p = "Workday" THEN WorkdayStep(slug, c, resp) ELSE SingleShotStep(slug, c, resp)

----------------------------------------------------------------------------
(* fetch_all_jobs *)

\* the identifiers of the model: "a", "k|1|s", "l|2|t"
SlugA == <<"a">>
SlugK == <<"k", "|", "1", "|", "s">>
SlugL == <<"l", "|", "2", "|", "t">>

FetchCompanies == {SlugA, SlugK, SlugL}

Running == {s \in companies : future[s] = "running"}

\* mutant: an empty result ends the collection, the queued fetches are cancelled
FutureAfterCollectCancelling(fut, s, jobs) ==
    [x \in DOMAIN fut |->
        IF x = s THEN "collected"
        ELSE IF jobs = <<>> /\ fut[x] = "queued" THEN "cancelled" ELSE fut[x]]

\* the future has been yielded by as_completed
FutureAfterCollect(fut, s, jobs) == [fut EXCEPT ![s] = "collected"]

\* mutant: the count is taken of the wrong list
ActiveCountOfAll(found, jobs) == Len(found)

\* active_companies[slug] = len(jobs), found being all_jobs after the extend
ActiveCount(found, jobs) == Len(jobs)

\* a worker of the pool takes the queued call of s and runs it up to its first request
Start(s) ==
    /\ s \in companies
    /\ future[s] = "queued"
    /\ Cardinality(Running) < max_workers
    /\ calls' = [calls EXCEPT ![s] = @ + 1]
    /\ call' = [call EXCEPT ![s] = NewCall]
    /\ IF RejectsSlug(platform, s)
       THEN /\ future' = [future EXCEPT ![s] = "done"]
            /\ result' = [result EXCEPT ![s] = <<>>]
       ELSE /\ future' = [future EXCEPT ![s] = "running"]
            /\ UNCHANGED result
    /\ UNCHANGED <<platform, companies, vendor, jobs_found, active_companies, failed>>
    /\ UNCHANGED pipeVars

\* the running call of s makes its next request and handles the response
Request(s) ==
    /\ s \in companies
    /\ future[s] = "running"
    /\ LET c == call[s]
           resp == VendorResponse(vendor[s], Len(c.requests) + 1, c.offset, Paginates(platform))
           step == AdapterStep(platform, s, c, resp)
       IN  /\ call' = [call EXCEPT ![s] = step.call]
           /\ IF step.returned
              THEN /\ future' = [future EXCEPT ![s] = "done"]
                   /\ result' = [result EXCEPT ![s] = step.value]
              ELSE UNCHANGED <<future, result>>
    /\ UNCHANGED <<platform, companies, vendor, calls, jobs_found, active_companies, failed>>
    /\ UNCHANGED pipeVars

\* the collecting loop handles the completed future of s
Collect(s) ==
    /\ s \in companies
    /\ future[s] = "done"
    /\ LET jobs == result[s]
       IN  /\ future' = FutureAfterCollect(future, s, jobs)
           /\ IF jobs # <<>>
              THEN /\ jobs_found' = jobs_found \o jobs
                   /\ active_companies' =
                          [x \in DOMAIN active_companies \cup {s} |->
                              IF x = s THEN ActiveCount(jobs_found', jobs)
                              ELSE active_companies[x]]
                   /\ UNCHANGED failed
              ELSE /\ failed' = failed + 1
                   /\ UNCHANGED <<jobs_found, active_companies>>
    /\ UNCHANGED <<platform, companies, vendor, call, result, calls>>
    /\ UNCHANGED pipeVars

\* fetch_all_jobs(cs, fetcher of p) has submitted every identifier
FetchStart(p, cs, v) ==
    /\ platform = p
    /\ companies = cs
    /\ vendor = v
    /\ future = [s \in cs |-> "queued"]
    /\ call = [s \in cs |-> NewCall]
    /\ result = [s \in cs |-> <<>>]
    /\ calls = [s \in cs |-> 0]
    /\ jobs_found = <<>>
    /\ active_companies = <<>>
    /\ failed = 0

NextFetch ==
    \/ \E s \in FetchCompanies : Start(s)
    \/ \E s \in FetchCompanies : Request(s)
    \/ \E s \in FetchCompanies : Collect(s)

\* the `with` block is left: nothing is queued, running or waiting for collection
RunComplete == \A s \in companies : future[s] \in {"collected", "cancelled"}

MaxTotal == 45      \* most postings a vendor holds
MaxFailAt == 3      \* latest request a vendor fails

FailKinds == {"status", "error"}

\* one adapter call, any vendor
AdapterVendors ==
    {Vendor(t, 0, "none") : t \in 0..MaxTotal}
    \cup {Vendor(t, n, k) : t \in 0..MaxTotal, n \in 1..MaxFailAt, k \in FailKinds}

InitAdapter ==
    /\ PipeStart(<<>>)
    /\ \E p \in Platforms, s \in FetchCompanies, v \in AdapterVendors :
          FetchStart(p, {s}, [x \in {s} |-> v])

SpecAdapter == InitAdapter /\ [][NextFetch]_vars

\* a run over an identifier set, with vendors of none or two pages
FetchVendors ==
    {Vendor(t, 0, "none") : t \in {0, limit + 1}}
    \cup {Vendor(t, n, k) : t \in {0, limit + 1}, n \in 1..2, k \in FailKinds}

InitFetch ==
    /\ PipeStart(<<>>)
    /\ \E p \in Platforms, cs \in SUBSET FetchCompanies :
          \E v \in [cs -> FetchVendors] : FetchStart(p, cs, v)

SpecFetch == InitFetch /\ [][NextFetch]_vars

\* a run over more identifiers than the pool has workers. The identifiers
\* "x|1|s", "xx|1|s", ... are well-formed for every platform and all get the
\* same one-page vendor, so they are interchangeable and the run is explored up
\* to renaming them: of the queued identifiers the shortest is started (the
\* pool's work queue is first in, first out), of the running ones the
\* shortest is answered, of the finished ones the shortest is collected.
PoolSize == 32

PoolSlug(i) == [j \in 1..i |-> "x"] \o <<"|", "1", "|", "s">>

PoolCompanies == {PoolSlug(i) : i \in 1..PoolSize}

PoolVendors ==
    {Vendor(t, 0, "none") : t \in {0, 1}}
    \cup {Vendor(1, 1, k) : k \in FailKinds}

\* s is the shortest identifier whose future is in state st
FirstIn(s, st) ==
    /\ s \in companies
    /\ future[s] = st
    /\ \A t \in companies : future[t] = st => Len(s) <= Len(t)

InitPool ==
    /\ PipeStart(<<>>)
    /\ \E p \in Platforms, v \in PoolVendors :
          FetchStart(p, PoolCompanies, [s \in PoolCompanies |-> v])

NextPool ==
    \/ \E s \in PoolCompanies : FirstIn(s, "queued") /\ Start(s)
    \/ \E s \in PoolCompanies : FirstIn(s, "running") /\ Request(s)
    \/ \E s \in PoolCompanies : FirstIn(s, "done") /\ Collect(s)

SpecPool == InitPool /\ [][NextPool]_vars

----------------------------------------------------------------------------
(* Properties of merge_job_data *)

HasParseableStamp(job) == job.scraped_at.kind \in {"naive", "Z", "offset"}

\* C1: after a merge, every previous-corpus record with a parseable scraped_at
\* whose URL is not in the new batch is excluded when its age in whole days
\* exceeds 30, and retained when its age is at most 30.
C1_StalenessEviction ==
    phase = "done" =>
        \A i \in DOMAIN existing :
            LET job == existing[i] IN
            (HasParseableStamp(job) /\ MergeKey(job) \notin KeysOf(output)) =>
                IF AgeDays(now, job.scraped_at) > StaleDays
                THEN job \notin Range(data)
                ELSE job \in Range(data)

\* C2: for every URL of the new batch, the merged corpus holds under that URL
\* a record of the new batch (the last one written for it), never the record
\* the previous corpus had, whatever the timestamps.
C2_NewWins ==
    phase = "done" =>
        /\ KeysOf(output) \subseteq KeysOf(data)
        /\ \A i \in DOMAIN data :
              MergeKey(data[i]) \in KeysOf(output) =>
                  /\ data[i] \notin Range(existing)
                  /\ \E j \in DOMAIN output :
                        /\ output[j] = data[i]
                        /\ \A k \in DOMAIN output :
                              MergeKey(output[k]) = MergeKey(data[i]) => k <= j

\* C2 witness: a previous record scraped 5 days ago, with a readable offset
\* timestamp, has been replaced by the new batch's record for its URL
C2_Witness ==
    /\ phase = "done"
    /\ \E i \in DOMAIN existing :
          /\ existing[i].scraped_at = Stamp("offset", now - 5 * HoursPerDay)
          /\ MergeKey(existing[i]) \in KeysOf(output)
          /\ existing[i] \notin Range(data)

\* C3: the written corpus has no two records with the same `url`.
C3_UrlUnique ==
    phase = "done" =>
        \A i, j \in DOMAIN data : data[i].url = data[j].url => i = j

\* C4: a previous-corpus record whose scraped_at is missing or unparseable and
\* whose URL is not in the new batch is in the merged corpus, unchanged.
C4_FailOpen ==
    phase = "done" =>
        \A i \in DOMAIN existing :
            LET job == existing[i] IN
            (~HasParseableStamp(job) /\ MergeKey(job) \notin KeysOf(output)) =>
                job \in Range(data)

\* C4 witness: a record with an unparseable scraped_at went through a merge
\* whose batch lacks its URL
C4_Witness ==
    /\ phase = "done"
    /\ \E i \in DOMAIN existing :
          /\ existing[i].scraped_at.kind = "bad"
          /\ MergeKey(existing[i]) \notin KeysOf(output)
          /\ existing[i] \in Range(data)
          /\ output # <<>>

\* C5: once a merge has run more than 30 days after a URL was last scraped,
\* the corpus no longer holds that URL.
C5_EvictedAfterWindow ==
    \A u \in Urls :
        (lastScraped[u] >= 0 /\ mergedAt >= 0
            /\ (mergedAt - lastScraped[u]) \div HoursPerDay > StaleDays) =>
                u \notin KeysOf(data)

----------------------------------------------------------------------------
(* Properties of clean_job_data *)

\* the drop criterion as documented: title empty or a sentinel whatever its
\* case, or url empty or absent, or company empty
DocumentedDrop(job) ==
    \/ job.title \in {NoneTitle, <<>>}
    \/ StrLower(job.title) \in InvalidTitles
    \/ ~Truthy(job.url)
    \/ ~Truthy(job.company)

\* C9: save_results keeps none of the records the documented criterion drops,
\* whatever their other fields, and keeps every record with a usable title, a
\* non-empty url and a non-empty company.
C9_FilterCriterion ==
    phase = "merge" =>
        \A i \in DOMAIN all_jobs :
            LET job == all_jobs[i] IN
            /\ DocumentedDrop(job) => job \notin Range(output)
            /\ (job.title = StrDev /\ Truthy(job.url) /\ Truthy(job.company))
                  => job \in Range(output)

----------------------------------------------------------------------------
(* Properties of the adapters and of fetch_all_jobs *)

Finished(s) == future[s] \in {"done", "collected"}

\* C6: an adapter call that saw a request fail (transport error, timeout,
\* malformed payload or non-200 status) returns an empty record list, also
\* when the request that failed was a later page of a Workday identifier.
C6_FailClosed ==
    \A s \in companies : (Finished(s) /\ call[s].sawFailure) => result[s] = <<>>

\* a well-formed Workday identifier whose vendor answers 200 on every page
WellBehaved(s) ==
    platform = "Workday" /\ ~RejectsSlug(platform, s) /\ vendor[s].failAt = 0

\* ceil(T / limit), and one request when there is nothing to fetch
Pages(T) == IF T = 0 THEN 1 ELSE (T + limit - 1) \div limit

CompanyOf(s) == IF platform = "Workday" THEN Split(s, "|")[1] ELSE s

\* the vendor's postings of s, normalized, in the vendor's order
Postings(s) == [i \in 1..vendor[s].total |-> Normalize(CompanyOf(s), s, i)]

\* C10: against a vendor that answers 200 on every page with a fixed total T,
\* the Workday adapter requests the offsets 0, 20, 40, ... in that order, goes
\* on exactly while offset + 20 < T, so makes ceil(T/20) requests (one for
\* T = 0), can always take its next step until then, and returns all T records.
C10_Pagination ==
    \A s \in companies :
        WellBehaved(s) =>
            LET reqs == call[s].requests
                T == vendor[s].total
            IN  /\ \A i \in DOMAIN reqs : reqs[i] = (i - 1) * limit
                /\ \A i \in 1..(Len(reqs) - 1) : reqs[i] + limit < T
                /\ Len(reqs) <= Pages(T)
                /\ future[s] = "running" => (Len(reqs) < Pages(T) /\ ENABLED Request(s))
                /\ Finished(s) =>
                      /\ Len(reqs) = Pages(T)
                      /\ reqs[Len(reqs)] + limit >= T
                      /\ result[s] = Postings(s)
                      /\ Len(result[s]) = T

\* C10 witness: a total of 45 was fetched with the requests 0, 20, 40
C10_Witness ==
    \E s \in companies :
        /\ WellBehaved(s)
        /\ vendor[s].total = 45
        /\ Finished(s)
        /\ call[s].requests = <<0, 20, 40>>
        /\ Len(result[s]) = 45

\* the identifier's fetch cannot fail: its vendor never fails and the adapter
\* accepts the identifier
NonFailing(s) == vendor[s].failAt = 0 /\ ~RejectsSlug(platform, s)

\* the records of s among those fetch_all_jobs returns
RecordsOf(s) == SelectSeq(jobs_found, LAMBDA r : r.company_slug = s)

\* C7: no fetch is cancelled or run twice; a non-failing identifier's call
\* returns the vendor's postings whatever the other identifiers' fetches do;
\* and when the run completes every identifier has been fetched exactly once,
\* its result collected, the non-failing ones with their full records and count.
C7_Isolation ==
    /\ \A s \in companies : calls[s] <= 1 /\ future[s] # "cancelled"
    /\ \A s \in companies : (NonFailing(s) /\ Finished(s)) => result[s] = Postings(s)
    /\ RunComplete =>
          \A s \in companies :
              /\ calls[s] = 1
              /\ future[s] = "collected"
              /\ RecordsOf(s) = result[s]
              /\ NonFailing(s) =>
                    /\ RecordsOf(s) = Postings(s)
                    /\ IF vendor[s].total > 0
                       THEN s \in DOMAIN active_companies
                            /\ active_companies[s] = vendor[s].total
                       ELSE s \notin DOMAIN active_companies

\* C7 witness: a run completed in which one identifier's fetch failed with an
\* error and another's, non-failing, delivered its postings
C7_Witness ==
    /\ RunComplete
    /\ \E s1, s2 \in companies :
          /\ s1 # s2
          /\ call[s1].sawFailure /\ vendor[s1].failKind = "error" /\ result[s1] = <<>>
          /\ NonFailing(s2) /\ vendor[s2].total > 0
          /\ RecordsOf(s2) = Postings(s2)

Count(seq, r) == Cardinality({i \in DOMAIN seq : seq[i] = r})

RECURSIVE SumOver(_, _)
SumOver(f, S) ==
    IF S = {} THEN 0
    ELSE LET x == CHOOSE y \in S : TRUE IN f[x] + SumOver(f, S \ {x})

\* C8: when the run completes, active holds exactly the identifiers whose call
\* returned records, each with its record count; the returned records are, as
\* a multiset, those of all calls; the counts add up to the number of records.
C8_Aggregate ==
    RunComplete =>
        /\ DOMAIN active_companies = {s \in companies : result[s] # <<>>}
        /\ \A s \in DOMAIN active_companies : active_companies[s] = Len(result[s])
        /\ \A r \in Range(jobs_found) \cup UNION {Range(result[s]) : s \in companies} :
              Count(jobs_found, r) = SumOver([s \in companies |-> Count(result[s], r)], companies)
        /\ SumOver(active_companies, DOMAIN active_companies) = Len(jobs_found)

\* C8 witness: a completed run with two active identifiers and an inactive one
C8_Witness ==
    /\ RunComplete
    /\ Cardinality(DOMAIN active_companies) = 2
    /\ failed = 1
    /\ Len(jobs_found) > limit

\* C11: never are more than 30 adapter calls in flight; while 30 are, no
\* queued identifier can be started, and a queued identifier's call has not
\* begun; every identifier has run once when the run completes.
C11_ConcurrencyBound ==
    /\ Cardinality(Running) <= 30
    /\ \A s \in companies :
          future[s] = "queued" =>
              /\ calls[s] = 0
              /\ Cardinality(Running) = 30 => ~ENABLED Start(s)
    /\ RunComplete => \A s \in companies : calls[s] = 1

\* C11 witness: 30 calls are in flight and the identifiers beyond the cap wait
C11_Witness ==
    /\ Cardinality(Running) = 30
    /\ Cardinality({s \in companies : future[s] = "queued"}) = Cardinality(companies) - 30
    /\ Cardinality(companies) > 30

\* every order of the records of jobs
Orderings(jobs) ==
    {[i \in DOMAIN jobs |-> jobs[p[i]]] :
        p \in {q \in [DOMAIN jobs -> DOMAIN jobs] :
                  \A i, j \in DOMAIN jobs : q[i] = q[j] => i = j}}

\* C12: the set of records of the merged corpus is the same for every order of
\* the records of the previous corpus and every order of the records of the
\* new batch, batches that hold one URL twice with different contents included.
C12_OrderInsensitive ==
    phase = "done" =>
        \A e \in Orderings(existing), b \in Orderings(output) :
            Range(FinalJobs(e, b, mergedAt)) = Range(data)

\* C13: after a merge the written metadata counts the written corpus: total_jobs
\* is its number of records and recruiter_jobs its number of records flagged
\* is_recruiter, retained records of the previous corpus included.
C13_MetadataConsistent ==
    phase = "done" =>
        /\ dataMeta.total_jobs = Len(data)
        /\ dataMeta.recruiter_jobs = CountRecruiter(data)

====
